---- MODULE Spec2Model ----
(***************************************************************************)
(* Model of terra-workflow-scale-test-tools:                               *)
(*   scripts/monitor_response_times_v2.py  - periodic DRS-flow probe that  *)
(*       appends one CSV row per job execution, driven by a scheduler      *)
(*       loop thread that hands each due job to a new worker thread;       *)
(*   terra_workflow_scale_test_tools/workflow_status.py (and the older     *)
(*       scripts/workflow_info.py) - WorkflowDAO and the blocking poller   *)
(*       wait_for_workflow_to_complete.                                    *)
(***************************************************************************)
EXTENDS Integers, Sequences, FiniteSets, TLC

\* ------------------------------------------------------------------ bounds
\* Number of job threads the scheduler may spawn in one run.
MaxTicks == 2
\* Number of HTTP requests the WorkflowDAO may send in one run.
MaxFetches == 3
\* Longest time one request of the measured flow takes, in clock ticks.
MaxDelay == 1
\* Clock ticks per second: time.time() is finer than the seconds that
\* the "%Y/%m/%d %H:%M:%S" rendering keeps.
TicksPerSecond == 2

Workers == 1..MaxTicks

None == "None"

VARIABLES
    \* ---- monitor_response_times_v2.py
    mainPc,                 \* position of the module-level script (lines 395-406)
    jobs,                   \* jobs registered with the schedule module
    due,                    \* the registered job's interval has elapsed
    cease_continuous_run,   \* the threading.Event of run_continuously
    schedPc,                \* position of ScheduleThread.run
    ex,                     \* one record per job thread
    fileExists,             \* Path(output_filename).exists()
    csvfile,                \* rows of the output file, in file order
    \* ---- workflow_status.py
    workflow_info,          \* WorkflowDAO.workflow_info
    pollPc,                 \* position of the caller / wait_for_workflow_to_complete
    requests_sent,          \* HTTP requests issued by the DAO so far
    last_ok_body,           \* body of the most recent successful fetch
    op,                     \* the DAO operation performed by the last step
    ret,                    \* what that operation returned (or "raised")
    printed,                \* the last line printed by the poller
    \* ---- one execution of measure_and_report, in detail
    fpc,                    \* position in measure_and_report
    now,                    \* time.time(), in clock ticks
    monitoring_infos,       \* the dict built by measure_response_times, in insertion order
    drs_metadata,           \* drs_metadata of line 294
    fence_user_token,       \* fence_user_token of line 298
    access_id,              \* the access id in the URL of the signed-URL request
    net_requests,           \* HTTP requests sent by the flow so far
    last_probe,             \* the last probe call: its response and what it returned
    row                     \* the flattened row handed to the csv writer

monVars  == <<mainPc, jobs, due, cease_continuous_run, schedPc, ex, fileExists, csvfile>>
pollVars == <<workflow_info, pollPc, requests_sent, last_ok_body, op, ret, printed>>
flowVars == <<fpc, now, monitoring_infos, drs_metadata, fence_user_token, access_id,
              net_requests, last_probe, row>>
vars     == <<mainPc, jobs, due, cease_continuous_run, schedPc, ex, fileExists, csvfile,
              workflow_info, pollPc, requests_sent, last_ok_body, op, ret, printed,
              fpc, now, monitoring_infos, drs_metadata, fence_user_token, access_id,
              net_requests, last_probe, row>>

\* ===================================================================
\*  HTTP responses as the probe methods and the DAO see them
\* ===================================================================
\* A request either fails in transport (requests raises), or returns a
\* status code with a body: "full" (valid JSON with the expected field),
\* "nofield" (valid JSON without it) or "notjson" (resp.json() raises).
\* The body of an error response is never read.
StatusCodes == {200, 500}
Bodies == {"full", "nofield", "notjson"}
Responses == {[kind |-> "transport", code |-> 0, body |-> "notjson"]}
             \cup [kind : {"http"}, code : {200}, body : Bodies]
             \cup [kind : {"http"}, code : StatusCodes \ {200}, body : {"nofield"}]

\* requests.Response.ok
ok(resp) == resp.code < 400

\* ===================================================================
\*  DRS flow (ResponseTimeMonitor.DrsFlowResponseTimeReporter)
\* ===================================================================
HopOrder == <<"indexd_get_metadata", "bond_get_access_token",
              "bond_get_sa_key", "fence_get_signed_url">>

\* Outcome of one probe method (get_gen3_drs_resolution,
\* get_fence_token_from_bond, get_service_account_key_from_bond,
\* get_gen3_drs_access): raises on a transport failure and when a
\* successful response does not parse (both "request": an exception of the
\* requests library); otherwise returns the extracted value (None unless
\* resp.ok and the field is there) and the hop record.
probe_raises_on_error(resp) ==
    IF resp.kind = "transport" \/ ~ok(resp) \/ resp.body = "notjson"
    THEN [raised |-> "request", value |-> None, code |-> 0]
    ELSE [raised |-> "none", value |-> IF resp.body = "full" THEN "value" ELSE None,
          code |-> resp.code]
probe(resp) ==
    IF resp.kind = "transport" THEN [raised |-> "request", value |-> None, code |-> 0]
    ELSE IF ok(resp) /\ resp.body = "notjson" THEN [raised |-> "request", value |-> None, code |-> 0]
    ELSE [raised |-> "none",
          value  |-> IF ok(resp) /\ resp.body = "full" THEN "value" ELSE None,
          code   |-> resp.code]

\* "except Exception" at the boundary of measure_response_times: which
\* kinds of exception raised inside the try block are caught there.
flow_boundary_narrow(kind) == kind \in {"request"}
flow_boundary(kind) == kind \in {"credential", "request", "assertion"}

\* line 300: assert fence_user_token is not None
assert_token_skipped(token) == TRUE
assert_token(token) == token # None

\* catch_exceptions(cancel_on_failure=False), as used by @catch_exceptions()
cancel_on_failure == FALSE

\* Return value of the wrapper for a job that raised / did not raise.
wrapper(raised) == IF raised /\ cancel_on_failure THEN "CancelJob" ELSE None

\* A job thread that has not been created yet.
NewExec == [pc |-> "unborn", thread |-> None, wrapped |-> TRUE, hops |-> <<>>,
            flowRaised |-> "none", fence_user_token |-> None, write_header |-> FALSE,
            failed |-> FALSE, wrote |-> FALSE, job_ret |-> None]

InFlight(w) == ex[w].pc \notin {"unborn", "done"}

\* The scheduler loop thread is busy while a job runs on it.
LoopBusy == \E w \in Workers : InFlight(w) /\ ex[w].thread = "loop"

Spawned == {w \in Workers : ex[w].pc # "unborn"}

\* Scheduler.run_threaded(job_func): Thread(target=job_func).start().  The
\* job (the decorated check_drs_flow_response_times) starts on a thread of
\* its own; run_threaded itself returns None to the schedule module.
run_threaded_direct(e) ==
    [exec |-> [e EXCEPT !.pc = "get_terra_user_pet_sa_token", !.thread = "loop",
                        !.wrapped = FALSE],
     ret  |-> None]
run_threaded_inline(e) ==
    [exec |-> [e EXCEPT !.pc = "get_terra_user_pet_sa_token", !.thread = "loop"],
     ret  |-> None]
run_threaded(e) ==
    [exec |-> [e EXCEPT !.pc = "get_terra_user_pet_sa_token", !.thread = "job_thread"],
     ret  |-> None]

\* The thread of an execution has ended: its locals are gone.
Ended(e) == [NewExec EXCEPT !.pc = "done", !.thread = e.thread, !.wrapped = e.wrapped]

\* An exception leaves measure_and_report.  The wrapper of catch_exceptions
\* swallows it (bare except) and the thread ends; an undecorated job would
\* kill the thread it runs on.
JobRaises(w, e) ==
    /\ ex' = [ex EXCEPT ![w] = [Ended(e) EXCEPT !.failed = TRUE, !.job_ret = wrapper(TRUE)]]
    /\ schedPc' = IF ~e.wrapped /\ e.thread = "loop" THEN "exited" ELSE schedPc

\* A step of the try block raised an exception of the given kind, with the
\* hops recorded so far: measure_response_times returns monitoring_infos
\* if the except clause catches it, and measure_and_report goes on to
\* write_monitoring_info_to_csv.
FlowRaises(w, e, kind) ==
    IF flow_boundary(kind)
    THEN /\ ex' = [ex EXCEPT ![w] = [e EXCEPT !.pc = "csv_exists", !.flowRaised = kind,
                                              !.fence_user_token = None]]
         /\ UNCHANGED schedPc
    ELSE JobRaises(w, e)

\* measure_response_times, line 291: terra_user_token = get_terra_user_pet_sa_token()
get_terra_user_pet_sa_token(w) ==
    /\ ex[w].pc = "get_terra_user_pet_sa_token"
    /\ \E credentials \in BOOLEAN :
          IF credentials
          THEN /\ ex' = [ex EXCEPT ![w].pc = HopOrder[1]]
               /\ UNCHANGED schedPc
          ELSE FlowRaises(w, ex[w], "credential")
    /\ UNCHANGED <<mainPc, jobs, due, cease_continuous_run, fileExists, csvfile>>
    /\ UNCHANGED <<pollVars, flowVars>>

\* One probe call of the flow and the assignment that records its hop.
\* i is the position of the hop in the flow; the step after the last hop
\* is the return of measure_response_times.
FlowHop(w, i) ==
    /\ ex[w].pc = HopOrder[i]
    /\ \E resp \in Responses :
        LET r    == probe(resp)
            \* monitoring_infos[<hop name>] = mon_info
            e1   == [ex[w] EXCEPT !.hops = Append(@, HopOrder[i])]
            e2   == IF i = 2 THEN [e1 EXCEPT !.fence_user_token = r.value] ELSE e1
            next == IF i < Len(HopOrder) THEN HopOrder[i + 1] ELSE "csv_exists"
        IN  IF r.raised # "none" THEN FlowRaises(w, ex[w], r.raised)
            ELSE IF i = 2 /\ ~assert_token(r.value) THEN FlowRaises(w, e2, "assertion")
            ELSE /\ ex' = [ex EXCEPT ![w] =
                          IF i < Len(HopOrder) THEN [e2 EXCEPT !.pc = next]
                          ELSE [e2 EXCEPT !.pc = next, !.fence_user_token = None]]
                 /\ UNCHANGED schedPc
    /\ UNCHANGED <<mainPc, jobs, due, cease_continuous_run, fileExists, csvfile>>
    /\ UNCHANGED <<pollVars, flowVars>>

get_gen3_drs_resolution(w)           == FlowHop(w, 1)
get_fence_token_from_bond(w)         == FlowHop(w, 2)
get_service_account_key_from_bond(w) == FlowHop(w, 3)
get_gen3_drs_access(w)               == FlowHop(w, 4)

\* ===================================================================
\*  Result recorder (MonitoringUtilityMethods.write_monitoring_info_to_csv)
\* ===================================================================
\* The rows one execution appends: the header row, if it decided to write
\* one, and the data row.  Both go through the buffered file object and
\* reach the file together when the with-block closes it.
RowsOf(e) ==
    (IF e.write_header THEN <<[kind |-> "header", hops |-> e.hops]>> ELSE <<>>)
    \o <<[kind |-> "data", hops |-> e.hops]>>

\* line 83: write_header = False if Path(output_filename).exists() else True
write_header(exists) == ~exists

\* lines 82-85: the file-exists check (and the flattening of the row).
csv_exists(w) ==
    /\ ex[w].pc = "csv_exists"
    /\ ex' = [ex EXCEPT ![w].write_header = write_header(fileExists), ![w].pc = "csv_open"]
    /\ UNCHANGED <<mainPc, jobs, due, cease_continuous_run, schedPc, fileExists, csvfile>>
    /\ UNCHANGED <<pollVars, flowVars>>

\* line 86: open(output_filename, 'a') creates the file if it is missing;
\* it raises OSError when the file cannot be opened, which leaves
\* measure_and_report and is swallowed by the wrapper.
csv_open(w) ==
    /\ ex[w].pc = "csv_open"
    /\ \E opened \in BOOLEAN :
          IF opened
          THEN /\ fileExists' = TRUE
               /\ ex' = [ex EXCEPT ![w].pc = "csv_write"]
               /\ UNCHANGED schedPc
          ELSE /\ JobRaises(w, ex[w])
               /\ UNCHANGED fileExists
    /\ UNCHANGED <<mainPc, jobs, due, cease_continuous_run, csvfile>>
    /\ UNCHANGED <<pollVars, flowVars>>

\* lines 87-91: writeheader() if write_header, writerow(), close; the job
\* returns and its thread ends.
csv_write(w) ==
    /\ ex[w].pc = "csv_write"
    /\ csvfile' = csvfile \o RowsOf(ex[w])
    /\ ex' = [ex EXCEPT ![w] = [Ended(ex[w]) EXCEPT !.wrote = TRUE, !.job_ret = wrapper(FALSE)]]
    /\ UNCHANGED <<mainPc, jobs, due, cease_continuous_run, schedPc, fileExists>>
    /\ UNCHANGED <<pollVars, flowVars>>

\* ===================================================================
\*  Scheduler (Scheduler, ResponseTimeMonitor, module-level script)
\* ===================================================================
JobName == "check_drs_flow_response_times"

\* line 397: responseTimeMonitor.configure_monitoring()
configure_monitoring ==
    /\ mainPc = "configure_monitoring"
    /\ jobs' = jobs \cup {JobName}
    /\ mainPc' = "start_monitoring"
    /\ UNCHANGED <<due, cease_continuous_run, schedPc, ex, fileExists, csvfile>>
    /\ UNCHANGED <<pollVars, flowVars>>

\* line 398: start_monitoring() -> run_continuously(): a fresh Event and
\* the ScheduleThread started.
start_monitoring ==
    /\ mainPc = "start_monitoring"
    /\ cease_continuous_run' = "clear"
    /\ schedPc' = "while"
    /\ mainPc' = "sleep"
    /\ UNCHANGED <<jobs, due, ex, fileExists, csvfile>>
    /\ UNCHANGED <<pollVars, flowVars>>

\* lines 402-406: after the sleep, stop_monitoring() sets the Event.
stop_monitoring ==
    /\ mainPc = "sleep"
    /\ cease_continuous_run' = "set"
    /\ mainPc' = "done"
    /\ UNCHANGED <<jobs, due, schedPc, ex, fileExists, csvfile>>
    /\ UNCHANGED <<pollVars, flowVars>>

\* The interval of the registered job elapses (schedule: next_run reached).
IntervalElapses ==
    /\ jobs # {}
    /\ ~due
    /\ Cardinality(Spawned) < MaxTicks
    /\ due' = TRUE
    /\ UNCHANGED <<mainPc, jobs, cease_continuous_run, schedPc, ex, fileExists, csvfile>>
    /\ UNCHANGED <<pollVars, flowVars>>

\* line 235: while not cease_continuous_run.is_set()
ScheduleThread_while_true ==
    /\ schedPc = "while"
    /\ ~LoopBusy
    /\ schedPc' = "run_pending"
    /\ UNCHANGED <<mainPc, jobs, due, cease_continuous_run, ex, fileExists, csvfile>>
    /\ UNCHANGED <<pollVars, flowVars>>
ScheduleThread_while ==
    /\ schedPc = "while"
    /\ ~LoopBusy
    /\ schedPc' = IF cease_continuous_run = "set" THEN "exited" ELSE "run_pending"
    /\ UNCHANGED <<mainPc, jobs, due, cease_continuous_run, ex, fileExists, csvfile>>
    /\ UNCHANGED <<pollVars, flowVars>>

\* line 236: schedule.run_pending() runs the job if it is due; the job is
\* run_threaded(check_drs_flow_response_times).  schedule removes a job
\* whose call returns CancelJob.
ScheduleThread_run_pending ==
    /\ schedPc = "run_pending"
    /\ ~LoopBusy
    /\ IF jobs # {} /\ due /\ Spawned # Workers
       THEN LET w == CHOOSE v \in Workers \ Spawned : \A u \in Workers \ Spawned : v <= u
                r == run_threaded(ex[w])
            IN  /\ ex' = [ex EXCEPT ![w] = r.exec]
                /\ jobs' = IF r.ret = "CancelJob" THEN {} ELSE jobs
                /\ due' = FALSE
       ELSE UNCHANGED <<ex, jobs, due>>
    /\ schedPc' = "sleep"
    /\ UNCHANGED <<mainPc, cease_continuous_run, fileExists, csvfile>>
    /\ UNCHANGED <<pollVars, flowVars>>

\* line 237: time.sleep(interval)
ScheduleThread_sleep ==
    /\ schedPc = "sleep"
    /\ ~LoopBusy
    /\ schedPc' = "while"
    /\ UNCHANGED <<mainPc, jobs, due, cease_continuous_run, ex, fileExists, csvfile>>
    /\ UNCHANGED <<pollVars, flowVars>>

ScheduleThread_run ==
    \/ ScheduleThread_while
    \/ ScheduleThread_run_pending
    \/ ScheduleThread_sleep

\* ===================================================================
\*  WorkflowDAO (workflow_status.py; workflow_info.py has the same methods)
\* ===================================================================
\* self.workflow_info is None until a fetch has stored a body.
NoneInfo == [none |-> TRUE]

\* Submission statuses the service may report; the last three stand for
\* terminal statuses and the two before them for strings the code does
\* not list.
Statuses == {"Queued", "Submitted", "Running", "Aborting", "running",
             "Succeeded", "Failed", "Aborted"}

\* What one GET of the submission can come back with: a transport failure,
\* an error status, a 2xx response whose body does not parse, or a 2xx
\* response with a submission object.
DaoResponses ==
    {[kind |-> "transport", code |-> 0, body |-> NoneInfo],
     [kind |-> "http", code |-> 404, body |-> NoneInfo],
     [kind |-> "http", code |-> 500, body |-> NoneInfo],
     [kind |-> "notjson", code |-> 200, body |-> NoneInfo]}
    \cup {[kind |-> "http", code |-> 200, body |-> [status |-> st]] : st \in Statuses}

\* requests.Response.raise_for_status(): raises HTTPError for 4xx and 5xx.
raise_for_status(resp) == 400 <= resp.code /\ resp.code < 600

NoRet == [value |-> None, sent |-> 0]

\* WorkflowDAO.update(): token, one GET, raise_for_status(), then
\* self.workflow_info = resp.json() if resp.ok else None.
\* Returns the new workflow_info, whether it raised and the requests sent.
update_clears(info, resp, cred) ==
    IF ~cred THEN [info |-> info, raised |-> TRUE, sent |-> 0]
    ELSE IF resp.kind = "transport" THEN [info |-> info, raised |-> TRUE, sent |-> 1]
    ELSE IF raise_for_status(resp) THEN [info |-> NoneInfo, raised |-> TRUE, sent |-> 1]
    ELSE IF resp.kind = "notjson" THEN [info |-> NoneInfo, raised |-> TRUE, sent |-> 1]
    ELSE [info |-> IF ok(resp) THEN resp.body ELSE NoneInfo, raised |-> FALSE, sent |-> 1]
update(info, resp, cred) ==
    IF ~cred THEN [info |-> info, raised |-> TRUE, sent |-> 0]
    ELSE IF resp.kind = "transport" THEN [info |-> info, raised |-> TRUE, sent |-> 1]
    ELSE IF raise_for_status(resp) THEN [info |-> info, raised |-> TRUE, sent |-> 1]
    ELSE IF resp.kind = "notjson" THEN [info |-> info, raised |-> TRUE, sent |-> 1]
    ELSE [info |-> IF ok(resp) THEN resp.body ELSE NoneInfo, raised |-> FALSE, sent |-> 1]

\* WorkflowDAO.get_workflow_info(): update() only if nothing is stored.
get_workflow_info_always(info, resp, cred) == update(info, resp, cred)
get_workflow_info(info, resp, cred) ==
    IF info = NoneInfo THEN update(info, resp, cred)
    ELSE [info |-> info, raised |-> FALSE, sent |-> 0]

in_process_status_list_short == {"Submitted", "Running"}
in_process_status_list == {"Queued", "Submitted", "Running"}

ToStr(b) == IF b THEN "True" ELSE "False"

\* WorkflowDAO.is_in_process()
is_in_process(info, resp, cred) ==
    LET g == get_workflow_info(info, resp, cred)
    IN  [info |-> g.info, raised |-> g.raised, sent |-> g.sent,
         value |-> IF g.raised THEN "raised"
                   ELSE ToStr(g.info.status \in in_process_status_list)]

\* WorkflowDAO.get_submission_status()
get_submission_status(info, resp, cred) ==
    LET g == get_workflow_info(info, resp, cred)
    IN  [info |-> g.info, raised |-> g.raised, sent |-> g.sent,
         value |-> IF g.raised THEN "raised" ELSE g.info.status]

\* The body of the most recent successful fetch, after a call that sent
\* `sent` requests and got resp.
LastOk(resp, cred, sent) ==
    IF sent = 1 /\ cred /\ resp.kind = "http" /\ resp.code = 200 THEN resp.body
    ELSE last_ok_body

\* The effect of a DAO call r on the DAO and on the bookkeeping variables.
Call(name, r, resp, cred, value) ==
    /\ requests_sent + r.sent <= MaxFetches
    /\ workflow_info' = r.info
    /\ requests_sent' = requests_sent + r.sent
    /\ last_ok_body' = LastOk(resp, cred, r.sent)
    /\ op' = name
    /\ ret' = [value |-> IF r.raised THEN "raised" ELSE value, sent |-> r.sent]

\* ---- calls made by the script or notebook that owns the DAO
\* (workflow_status.py lines 118-125); an exception ends the cell, the DAO
\* object stays.
CallUpdate ==
    /\ pollPc = "idle"
    /\ \E resp \in DaoResponses, cred \in BOOLEAN :
          Call("update", update(workflow_info, resp, cred), resp, cred, None)
    /\ UNCHANGED <<pollPc, printed>>
    /\ UNCHANGED <<monVars, flowVars>>

CallGetWorkflowInfo ==
    /\ pollPc = "idle"
    /\ \E resp \in DaoResponses, cred \in BOOLEAN :
          Call("get_workflow_info", get_workflow_info(workflow_info, resp, cred),
               resp, cred, "info")
    /\ UNCHANGED <<pollPc, printed>>
    /\ UNCHANGED <<monVars, flowVars>>

CallIsInProcess ==
    /\ pollPc = "idle"
    /\ \E resp \in DaoResponses, cred \in BOOLEAN :
          LET r == is_in_process(workflow_info, resp, cred)
          IN  Call("is_in_process", r, resp, cred, r.value)
    /\ UNCHANGED <<pollPc, printed>>
    /\ UNCHANGED <<monVars, flowVars>>

\* ---- wait_for_workflow_to_complete(workflow_dao)
StartWait ==
    /\ pollPc = "idle"
    /\ pollPc' = "while"
    /\ op' = None
    /\ ret' = NoRet
    /\ UNCHANGED <<workflow_info, requests_sent, last_ok_body, printed>>
    /\ UNCHANGED <<monVars, flowVars>>

\* line 103: while workflow_dao.is_in_process()
PollWhile ==
    /\ pollPc = "while"
    /\ \E resp \in DaoResponses, cred \in BOOLEAN :
          LET r == is_in_process(workflow_info, resp, cred)
          IN  /\ Call("is_in_process", r, resp, cred, r.value)
              /\ pollPc' = IF r.raised THEN "aborted"
                           ELSE IF r.value = "True" THEN "print_status"
                           ELSE "final_print"
    /\ UNCHANGED printed
    /\ UNCHANGED <<monVars, flowVars>>

\* line 104: print(f"Submission status: {get_submission_status()}")
PollPrintStatus ==
    /\ pollPc = "print_status"
    /\ \E resp \in DaoResponses, cred \in BOOLEAN :
          LET r == get_submission_status(workflow_info, resp, cred)
          IN  /\ Call("get_submission_status", r, resp, cred, r.value)
              /\ pollPc' = IF r.raised THEN "aborted" ELSE "sleep"
              /\ printed' = IF r.raised THEN printed
                            ELSE [line |-> "Submission status", status |-> r.value]
    /\ UNCHANGED <<monVars, flowVars>>

\* lines 105-107: time.sleep(sleep_seconds)
PollSleep ==
    /\ pollPc = "sleep"
    /\ pollPc' = "update"
    /\ op' = "sleep"
    /\ ret' = NoRet
    /\ UNCHANGED <<workflow_info, requests_sent, last_ok_body, printed>>
    /\ UNCHANGED <<monVars, flowVars>>

\* line 108: workflow_dao.update()
PollUpdate_skipped ==
    /\ pollPc = "update"
    /\ pollPc' = "while"
    /\ op' = "update"
    /\ ret' = NoRet
    /\ UNCHANGED <<workflow_info, requests_sent, last_ok_body, printed>>
    /\ UNCHANGED <<monVars, flowVars>>
PollUpdate ==
    /\ pollPc = "update"
    /\ \E resp \in DaoResponses, cred \in BOOLEAN :
          LET r == update(workflow_info, resp, cred)
          IN  /\ Call("update", r, resp, cred, None)
              /\ pollPc' = IF r.raised THEN "aborted" ELSE "while"
    /\ UNCHANGED printed
    /\ UNCHANGED <<monVars, flowVars>>

\* line 109: print(f"Final Submission status: {get_submission_status()}")
PollFinal ==
    /\ pollPc = "final_print"
    /\ \E resp \in DaoResponses, cred \in BOOLEAN :
          LET r == get_submission_status(workflow_info, resp, cred)
          IN  /\ Call("get_submission_status", r, resp, cred, r.value)
              /\ pollPc' = IF r.raised THEN "aborted" ELSE "returned"
              /\ printed' = IF r.raised THEN printed
                            ELSE [line |-> "Final Submission status", status |-> r.value]
    /\ UNCHANGED <<monVars, flowVars>>

\* ===================================================================
\*  One execution of measure_and_report with its hop records
\* ===================================================================
\* requests.Response.reason for the status codes of the model.
reason(code) == IF code = 200 THEN "OK" ELSE "Internal Server Error"

\* MonitoringUtilityMethods.monitoring_info(start_time, response), called
\* when the response is there (time.time() = end).
monitoring_info(start_time, resp, end) ==
    [start_time |-> start_time, response_duration |-> end - start_time,
     response_code |-> resp.code, response_reason |-> reason(resp.code)]

\* MonitoringUtilityMethods.format_timestamp_as_utc(seconds_since_epoch):
\* datetime.fromtimestamp(time.time(), timezone.utc).strftime(...), the
\* rendering keeps whole seconds.  clock is time.time() at the call.
format_timestamp_as_utc(seconds_since_epoch, clock) == clock \div TicksPerSecond

\* MonitoringUtilityMethods.flatten_monitoring_info_dict: one entry per
\* hop with the four metrics, start_time replaced by its rendering (the
\* value is always a float).
flatten_monitoring_info_dict(infos, clock) ==
    [i \in 1..Len(infos) |->
        [infos[i] EXCEPT !.start_time = format_timestamp_as_utc(@, clock)]]

\* DeploymentInfo.Gen3DeploymentInfo.cloud_uri_scheme
cloud_uri_scheme == "gs"

\* Access-method lists a DRS metadata response may carry.
AccessMethods == {[type |-> "s3", access_id |-> "s3"], [type |-> "gs", access_id |-> "gs"],
                  [type |-> "gs", access_id |-> "X"]}
AccessMethodLists ==
    {<<>>} \cup {<<a>> : a \in AccessMethods}
           \cup {<<a, b>> : a \in AccessMethods, b \in AccessMethods}
NoMetadata == [none |-> TRUE]

\* Gen3Methods._get_drs_access_id(drs_response, cloud_uri_scheme): the
\* access_id of the first access method of that type, None without one.
RECURSIVE FirstAccessId(_, _)
FirstAccessId(methods, scheme) ==
    IF methods = <<>> THEN None
    ELSE IF Head(methods).type = scheme THEN Head(methods).access_id
    ELSE FirstAccessId(Tail(methods), scheme)
_get_drs_access_id(drs_response, scheme) ==
    FirstAccessId(drs_response.access_methods, scheme)

\* Gen3Methods.get_gen3_drs_access(fence_user_token, drs_uri=None,
\* access_id="gs"): the default the flow's call at line 307 leaves in place.
default_access_id == "gs"

NoProbe == [name |-> None, code |-> 0, ok |-> FALSE, raised |-> "none", value |-> None]

\* line 310-318: an exception inside the try block; the flow returns what
\* it has and measure_and_report goes on to the recorder.
MFlowRaises(kind) ==
    fpc' = IF flow_boundary(kind) THEN "write_monitoring_info_to_csv" ELSE "failed"

\* line 291
M_get_terra_user_pet_sa_token ==
    /\ fpc = "get_terra_user_pet_sa_token"
    /\ \E credentials \in BOOLEAN :
          IF credentials THEN fpc' = HopOrder[1] ELSE MFlowRaises("credential")
    /\ UNCHANGED <<now, monitoring_infos, drs_metadata, fence_user_token, access_id,
                   net_requests, last_probe, row>>
    /\ UNCHANGED <<monVars, pollVars>>

\* One probe method called by measure_response_times and the assignment
\* of its hop record: start_time = time.time(), one requests.get, the
\* response after d ticks, the value extracted, monitoring_info().
MHop(i) ==
    /\ fpc = HopOrder[i]
    /\ \E resp \in Responses, d \in 0..MaxDelay,
          methods \in (IF i = 1 THEN AccessMethodLists ELSE {<<>>}) :
        LET r    == probe(resp)
            info == [name |-> HopOrder[i]] @@ monitoring_info(now, resp, now + d)
            next == IF i < Len(HopOrder) THEN HopOrder[i + 1]
                    ELSE "write_monitoring_info_to_csv"
        IN  /\ now' = now + d
            /\ net_requests' = net_requests + 1
            /\ last_probe' = [name |-> HopOrder[i], code |-> resp.code,
                              ok |-> resp.kind = "http" /\ ok(resp),
                              raised |-> r.raised, value |-> r.value]
            /\ access_id' = IF i = 4 THEN default_access_id ELSE access_id
            /\ IF r.raised # "none"
               THEN /\ MFlowRaises(r.raised)
                    /\ UNCHANGED <<monitoring_infos, drs_metadata, fence_user_token>>
               ELSE /\ monitoring_infos' = Append(monitoring_infos, info)
                    /\ drs_metadata' =
                         IF i # 1 THEN drs_metadata
                         ELSE IF r.value = None THEN NoMetadata
                         ELSE [access_methods |-> methods]
                    /\ fence_user_token' = IF i = 2 THEN r.value ELSE fence_user_token
                    /\ IF i = 2 /\ ~assert_token(r.value)
                       THEN MFlowRaises("assertion")
                       ELSE fpc' = next
    /\ UNCHANGED row
    /\ UNCHANGED <<monVars, pollVars>>

M_get_gen3_drs_resolution           == MHop(1)
M_get_fence_token_from_bond         == MHop(2)
M_get_service_account_key_from_bond == MHop(3)
M_get_gen3_drs_access               == MHop(4)

\* line 318 and lines 85-91: the row is flattened (at time.time() = now)
\* and written.
M_write_monitoring_info_to_csv ==
    /\ fpc = "write_monitoring_info_to_csv"
    /\ row' = flatten_monitoring_info_dict(monitoring_infos, now)
    /\ fpc' = "done"
    /\ UNCHANGED <<now, monitoring_infos, drs_metadata, fence_user_token, access_id,
                   net_requests, last_probe>>
    /\ UNCHANGED <<monVars, pollVars>>

\* ===================================================================
\*  Initial state and specifications
\* ===================================================================
\* After responseTimeMonitor = ResponseTimeMonitor() (line 396) and after
\* WorkflowDAO(...) (workflow_status.py lines 17-24).
Init ==
    /\ mainPc = "configure_monitoring"
    /\ jobs = {}
    /\ due = FALSE
    /\ cease_continuous_run = None
    /\ schedPc = "not_started"
    /\ ex = [w \in Workers |-> NewExec]
    /\ fileExists = FALSE
    /\ csvfile = <<>>
    /\ workflow_info = NoneInfo
    /\ pollPc = "idle"
    /\ requests_sent = 0
    /\ last_ok_body = NoneInfo
    /\ op = None
    /\ ret = NoRet
    /\ printed = [line |-> None, status |-> None]
    /\ fpc = "get_terra_user_pet_sa_token"
    /\ now = 0
    /\ monitoring_infos = <<>>
    /\ drs_metadata = NoMetadata
    /\ fence_user_token = None
    /\ access_id = None
    /\ net_requests = 0
    /\ last_probe = NoProbe
    /\ row = <<>>

Next ==
    \/ configure_monitoring
    \/ start_monitoring
    \/ stop_monitoring
    \/ IntervalElapses
    \/ ScheduleThread_while
    \/ ScheduleThread_run_pending
    \/ ScheduleThread_sleep
    \/ \E w \in Workers : get_terra_user_pet_sa_token(w)
    \/ \E w \in Workers : get_gen3_drs_resolution(w)
    \/ \E w \in Workers : get_fence_token_from_bond(w)
    \/ \E w \in Workers : get_service_account_key_from_bond(w)
    \/ \E w \in Workers : get_gen3_drs_access(w)
    \/ \E w \in Workers : csv_exists(w)
    \/ \E w \in Workers : csv_open(w)
    \/ \E w \in Workers : csv_write(w)

Spec == Init /\ [][Next]_vars

PollerNext ==
    \/ CallUpdate
    \/ CallGetWorkflowInfo
    \/ CallIsInProcess
    \/ StartWait
    \/ PollWhile
    \/ PollPrintStatus
    \/ PollSleep
    \/ PollUpdate
    \/ PollFinal

PollerSpec == Init /\ [][PollerNext]_vars

\* The poller is a running single thread: each of its steps that can be
\* taken is eventually taken.
PollerFairSpec ==
    /\ PollerSpec
    /\ WF_vars(PollWhile)
    /\ WF_vars(PollPrintStatus)
    /\ WF_vars(PollSleep)
    /\ WF_vars(PollFinal)

MeasureNext ==
    \/ M_get_terra_user_pet_sa_token
    \/ M_get_gen3_drs_resolution
    \/ M_get_fence_token_from_bond
    \/ M_get_service_account_key_from_bond
    \/ M_get_gen3_drs_access
    \/ M_write_monitoring_info_to_csv

\* One execution of measure_and_report on its job thread.
MeasureSpec == Init /\ [][MeasureNext]_vars

\* ===================================================================
\*  Properties of the monitor
\* ===================================================================
FlowPcs == {"get_terra_user_pet_sa_token"} \cup {HopOrder[i] : i \in 1..Len(HopOrder)}
CsvPcs  == {"csv_exists", "csv_open", "csv_write"}

HeaderRows == {i \in 1..Len(csvfile) : csvfile[i].kind = "header"}

\* C1: whatever the interleaving of the executions of
\* write_monitoring_info_to_csv, a non-empty output file has exactly one
\* header row and it is the first row.
C1_OneHeaderFirst ==
    csvfile # <<>> => HeaderRows = {1}

\* C2: the hops recorded by an execution of measure_response_times are a
\* prefix of the fixed hop sequence (at most 4); an execution is past
\* bond_get_access_token only with a token; when the flow raised, the last
\* hop is missing, and in the no-token case the hops are exactly
\* indexd_get_metadata and bond_get_access_token.
C2_HopsArePrefix ==
    \A w \in Workers :
        LET h == ex[w].hops IN
        /\ Len(h) <= Len(HopOrder)
        /\ h = SubSeq(HopOrder, 1, Len(h))
        /\ ex[w].pc \in {HopOrder[3], HopOrder[4]} => ex[w].fence_user_token # None
        /\ ex[w].flowRaised # "none" => Len(h) < Len(HopOrder)
        /\ ex[w].flowRaised = "assertion" =>
               h = <<"indexd_get_metadata", "bond_get_access_token">>
        /\ ex[w].flowRaised = "credential" => h = <<>>

C2_Witness ==
    \E w \in Workers : ex[w].pc \in CsvPcs /\ ex[w].flowRaised = "assertion"
                        /\ Len(ex[w].hops) = 2

\* C3: an exception raised by a step of the flow never ends the job: the
\* execution goes on to write_monitoring_info_to_csv with the hops it had
\* recorded, keeps them until the write, and the write appends exactly
\* one data row carrying them.
C3_PartialHopsReported ==
    [][\A w \in Workers :
         /\ (ex[w].pc \in FlowPcs /\ ex'[w].pc # ex[w].pc) =>
               /\ ex'[w].pc \in FlowPcs \cup {"csv_exists"}
               /\ ex'[w].flowRaised # "none" =>
                     /\ ex'[w].pc = "csv_exists"
                     /\ \/ ex'[w].hops = ex[w].hops
                        \/ /\ ex'[w].flowRaised = "assertion"
                           /\ ex'[w].hops = Append(ex[w].hops, "bond_get_access_token")
         /\ (ex[w].pc \in CsvPcs /\ ex'[w].pc \in CsvPcs) => ex'[w].hops = ex[w].hops
         /\ (ex[w].pc = "csv_write" /\ ex'[w].pc = "done") =>
               /\ Len(csvfile') >= 1
               /\ csvfile'[Len(csvfile')] = [kind |-> "data", hops |-> ex[w].hops]
               /\ Cardinality({i \in 1..Len(csvfile') : csvfile'[i].kind = "data"})
                    = Cardinality({i \in 1..Len(csvfile) : csvfile[i].kind = "data"}) + 1
      ]_vars

C3_Witness ==
    \E i \in 1..Len(csvfile) :
        /\ csvfile[i].kind = "data" /\ Len(csvfile[i].hops) < Len(HopOrder)
        /\ \E w \in Workers : ex[w].pc = "done" /\ ex[w].wrote

\* C4: once the loop thread has found the Event set it has exited, and
\* from then on it stays exited and no job thread is started; job threads
\* started earlier are not waited for.
C4_NoTickAfterStopObserved ==
    /\ [][(schedPc = "while" /\ cease_continuous_run = "set" /\ schedPc' # schedPc)
            => schedPc' = "exited"]_vars
    /\ [][schedPc = "exited" => (schedPc' = "exited" /\ Spawned' = Spawned)]_vars

C4_Witness ==
    schedPc = "exited" /\ cease_continuous_run = "set" /\ \E w \in Workers : InFlight(w)

\* C5: once registered the job stays registered, the loop thread exits
\* only when the Event is set, and a due job is started also after an
\* earlier tick failed.
C5_FailingTickKeepsSchedule ==
    /\ [](mainPc # "configure_monitoring" => jobs = {JobName})
    /\ [](schedPc = "exited" => cease_continuous_run = "set")
    /\ [][(schedPc = "run_pending" /\ schedPc' = "sleep" /\ due
            /\ \E w \in Workers : ex[w].failed)
           => Cardinality(Spawned') = Cardinality(Spawned) + 1]_vars

C5_Witness ==
    \E w, v \in Workers : ex[w].failed /\ w < v /\ InFlight(v) /\ jobs = {JobName}

\* C6: the loop thread can always take its next step, whatever the job
\* threads are doing; a due job is started although an earlier execution
\* is still in flight, on a thread of its own.
C6_LoopNeverWaits ==
    /\ [](schedPc \in {"while", "run_pending", "sleep"} => ENABLED ScheduleThread_run)
    /\ [](\A w \in Workers : InFlight(w) => ex[w].thread = "job_thread")
    /\ [][(schedPc = "run_pending" /\ schedPc' = "sleep" /\ due
            /\ \E w \in Workers : InFlight(w))
           => Cardinality(Spawned') = Cardinality(Spawned) + 1]_vars

C6_Witness ==
    \E w, v \in Workers : w # v /\ InFlight(w) /\ InFlight(v)

\* ===================================================================
\*  Properties of the WorkflowDAO and the poller
\* ===================================================================
InProcess(info) == info # NoneInfo /\ info.status \in {"Queued", "Submitted", "Running"}
Terminal(info)  == info # NoneInfo /\ info.status \notin {"Queued", "Submitted", "Running"}

\* C7: wait_for_workflow_to_complete leaves its loop exactly on a status
\* that is not in process: a check on an in-process snapshot goes on to
\* print, sleep and one update() (one request) before the next check, a
\* check on any other snapshot goes to the final print; it has returned
\* only with such a snapshot, whose status is the one printed; and once
\* the stored snapshot is terminal at a check, it does return.
C7_ReturnsExactlyOnTerminal ==
    /\ [](pollPc \in {"print_status", "sleep", "update"} => InProcess(workflow_info))
    /\ [](pollPc \in {"final_print", "returned"} => Terminal(workflow_info))
    /\ [](pollPc = "returned" =>
            printed = [line |-> "Final Submission status", status |-> workflow_info.status])
    /\ [][/\ (pollPc = "while" /\ pollPc' \notin {"while", "aborted"}) =>
               pollPc' = IF InProcess(workflow_info') THEN "print_status" ELSE "final_print"
          /\ pollPc = "print_status" =>
               (pollPc' = "sleep" /\ UNCHANGED <<workflow_info, requests_sent>>)
          /\ pollPc = "sleep" =>
               (pollPc' = "update" /\ UNCHANGED <<workflow_info, requests_sent>>)
          /\ (pollPc = "update" /\ pollPc' # "aborted") =>
               (pollPc' = "while" /\ requests_sent' = requests_sent + 1)
          /\ pollPc = "final_print" =>
               (pollPc' = "returned" /\ UNCHANGED <<workflow_info, requests_sent>>)
         ]_vars
    /\ (pollPc = "while" /\ Terminal(workflow_info)) ~> (pollPc = "returned")

C7_Witness ==
    /\ pollPc = "returned"
    /\ requests_sent >= 2
    /\ printed = [line |-> "Final Submission status", status |-> "Succeeded"]

\* C8: a call of is_in_process() that returns, returns true if and only if
\* the status of the stored (latest fetched) snapshot is one of "Queued",
\* "Submitted", "Running".
C8_InProcessIffListed ==
    (op = "is_in_process" /\ ret.value # "raised") =>
        /\ workflow_info # NoneInfo
        /\ workflow_info = last_ok_body
        /\ ret.value = ToStr(workflow_info.status \in {"Queued", "Submitted", "Running"})

C8_Witness ==
    /\ op = "is_in_process"
    /\ ret.value = "False"
    /\ workflow_info.status = "running"

\* C9 as stated: no call of is_in_process(), whether a snapshot is stored
\* or not, sends a request or changes the stored snapshot.
C9_NeverFetches ==
    [][op' = "is_in_process" =>
         (requests_sent' = requests_sent /\ workflow_info' = workflow_info)]_vars

\* C9 amended: with a snapshot stored, is_in_process() sends no request,
\* leaves the snapshot unchanged and does not raise; with no snapshot
\* stored it calls update() once: at most one request, and if it returns,
\* exactly one request whose body is now the snapshot.
C9_FetchesOnlyWhenAbsent ==
    [][op' = "is_in_process" =>
         IF workflow_info # NoneInfo
         THEN /\ requests_sent' = requests_sent
              /\ workflow_info' = workflow_info
              /\ ret'.value # "raised"
         ELSE /\ requests_sent' \in {requests_sent, requests_sent + 1}
              /\ ret'.value # "raised" =>
                    /\ requests_sent' = requests_sent + 1
                    /\ workflow_info' # NoneInfo
                    /\ workflow_info' = last_ok_body'
              /\ ret'.value = "raised" => workflow_info' = NoneInfo
      ]_vars

C9_Witness ==
    /\ op = "is_in_process"
    /\ ret.value \in {"True", "False"}
    /\ ret.sent = 0
    /\ requests_sent >= 1

HopPcs == {HopOrder[i] : i \in 1..Len(HopOrder)}

NextHop(pc) ==
    IF pc = HopOrder[1] THEN HopOrder[2]
    ELSE IF pc = HopOrder[2] THEN HopOrder[3]
    ELSE IF pc = HopOrder[3] THEN HopOrder[4]
    ELSE "write_monitoring_info_to_csv"

C12_AccessIdFromMetadata ==
    (access_id # None /\ drs_metadata # NoMetadata) =>
        access_id = _get_drs_access_id(drs_metadata, cloud_uri_scheme)

\* C13: in the flattened row every hop's start_time is the rendering of
\* that hop's own recorded start_time.
C13_StartTimeIsHopsOwn ==
    fpc = "done" =>
        /\ Len(row) = Len(monitoring_infos)
        /\ \A i \in 1..Len(row) :
              row[i].start_time = monitoring_infos[i].start_time \div TicksPerSecond

====
